---------------------------- MODULE Spec2Model ----------------------------
(***************************************************************************)
(* core.io-pubsub-mqtt: the request/response cycle, the handler registry   *)
(* and the inbound-message dispatch of $initPubSubMQTT, the variant with   *)
(* configurable response keys, response middleware and backoff; the        *)
(* connection lifecycle (connect, reconnect, offline, error, close) of     *)
(* that variant and of lib/init.js; the backoff scheduler.                 *)
(*                                                                         *)
(* A topic is the sequence of its '/'-separated segments.  The handler     *)
(* registry config.handlers is a sequence of (key, value) pairs in the     *)
(* order Object.keys() enumerates them.  One action is one turn of the     *)
(* event loop: a public call, a transport event or a timer callback.       *)
(*                                                                         *)
(* Each call of $initPubSubMQTT gives one client: pubsub and client are    *)
(* functions of the client's number.  The registry, the requests and the   *)
(* dispatch are those of client 1; client 2 has no handlers.  backoff is   *)
(* the one object that the backoff module exports.                         *)
(*                                                                         *)
(* A payload is a record: its kind (object, string, none), the fields the  *)
(* library reads or writes (respondTo, response, uuid, timestamp), the     *)
(* middlewares that marked it and, for a string, how it was encoded.       *)
(* pipeline holds the transforms and the response middlewares of client 1, *)
(* lastCall the outcome of the last publishing call, inflight the messages *)
(* handed to the transport and not yet delivered, remote the handlers of   *)
(* the peer that answers requests.  _clients is the module's cache of      *)
(* transports by url, transports what mqtt.connect returned and instances  *)
(* the clients made by the calls of $initPubSubMQTT; except in CreateSpec  *)
(* the two clients exist from the start, each with its own url.            *)
(***************************************************************************)
EXTENDS Naturals, Sequences, FiniteSets

VARIABLES
    config,      \* the merged configuration; here its responseOptions
    handlers,    \* config.handlers, in Object.keys() order
    reqs,        \* one record per request() call made so far, in call order
    subscribed,  \* the topics handed to client.subscribe
    published,   \* the messages handed to client.publish
    last,        \* the most recent 'message' event and what its dispatch did
    variant,     \* which version of $initPubSubMQTT is running
    pubsub,      \* per client: online, connectionAttempt,
                 \* _notifiedInitialConnection, error, and its listeners
    client,      \* per client, the transport: options, reconnectPeriod, ended
    backoff,     \* the object exported by the backoff module
    lastEvent,   \* the most recent transport event or backoff call and what
                 \* its handler did
    observed,    \* history: per client the reconnect events since the last
                 \* connect event and whether a connect event was seen; the
                 \* next() calls since the last reset()
    pipeline,    \* pubsub._transforms and pubsub.responseMiddleware
    lastCall,    \* the most recent call of publish, fastPublish or
                 \* applyResponseMiddleware and what it did
    inflight,    \* the messages the transport took and has not yet delivered,
                 \* one copy per receiving client
    remote,      \* config.handlers of a client in another process
    _clients,    \* the module's cache: per url the transport createClient
                 \* returned for it, as its place in transports (0: none)
    transports,  \* what mqtt.connect returned, in call order: the url, the
                 \* instances listening and the events emitted so far
    instances    \* one per call of $initPubSubMQTT: its url, its client and
                 \* the transport events its listeners were called with

\* the state of the connection lifecycle
conn == <<variant, pubsub, client, backoff, lastEvent, observed>>

\* the state of the transform and middleware pipelines and of the transport
pipe == <<pipeline, lastCall, inflight, remote>>

\* the clients made so far and their transports
made == <<_clients, transports, instances>>

vars == <<config, handlers, reqs, subscribed, published, last,
          variant, pubsub, client, backoff, lastEvent, observed,
          pipeline, lastCall, inflight, remote,
          _clients, transports, instances>>

---------------------------------------------------------------------------
(* Bounds *)

MaxRequests == 1      \* request() calls in one behaviour
MaxFilterLen == 3     \* segments of a subscription pattern in MatchSpec
MaxTopicLen == 4      \* segments of a message topic in MatchSpec
MaxReconnects == 3    \* consecutive reconnect events of one client
MaxCalls == 5         \* next() calls between two reset() calls in BackoffSpec
MaxTransforms == 5    \* functions in pubsub._transforms
MaxMiddlewares == 2   \* functions in pubsub.responseMiddleware
MaxInstances == 3     \* calls of $initPubSubMQTT in CreateSpec
MaxEvents == 2        \* events one transport emits in CreateSpec

---------------------------------------------------------------------------
(* Values *)

NoTopic == << >>

\* what makeGuid() can return, up to renaming
GuidPool == <<"g1", "g2">>

Guids == {GuidPool[i] : i \in 1..Len(GuidPool)}

RequestTopics == {<<"a">>}

\* one wildcard subscription that overlaps the request and response topics
SubscribePatterns == {<<"a", "#">>}

HandlerBehaviours == {"ok", "throws"}

MessageTopics ==
    RequestTopics \cup {t \o <<"res", g>> : t \in RequestTopics, g \in Guids}

\* the value of a field that the object does not have
Absent == "absent"

\* undefined; the shape of every value of the model. An object has its own
\* fields as text, the topicKey field as respondTo (NoTopic: not there), the
\* callerKey function as response, the fields of the ensure transforms, and
\* in marks the fields that response middlewares set, in the order they were
\* set. A string has its characters described by enc: "raw" is text that is
\* not JSON, "object" is the JSON text of the object with these fields;
\* quotes counts how often the text was serialised again as a JSON string
\* and suffix is what transforms appended to the text.
NoPayload ==
    [kind |-> "none", text |-> "", respondTo |-> NoTopic, response |-> FALSE,
     uuid |-> Absent, timestamp |-> Absent, marks |-> << >>,
     enc |-> "", quotes |-> 0, suffix |-> << >>]

\* an object with the caller's fields only
Object(text) == [NoPayload EXCEPT !.kind = "object", !.text = text]

\* a string that is not JSON
String(text) == [NoPayload EXCEPT !.kind = "string", !.text = text, !.enc = "raw"]

\* a value that is neither an object nor a string: null, a number, a
\* boolean
Literal(kind, text) == [NoPayload EXCEPT !.kind = kind, !.text = text]

\* JSON.stringify(data): functions and undefined fields are left out, a
\* string is quoted, null, a number and a boolean are their literal
JSONStringify(data) ==
    IF data.kind = "string" THEN [data EXCEPT !.quotes = @ + 1]
    ELSE IF data.kind = "none" THEN NoPayload
    ELSE [data EXCEPT !.kind = "string",
                      !.enc = IF data.kind \in {"null", "number", "boolean"}
                              THEN data.kind ELSE "object",
                      !.response = FALSE]

\* wire bodies: a JSON object, a JSON object carrying the topicKey, not JSON
WireMessages ==
    {JSONStringify(Object("v:1")),
     JSONStringify([Object("") EXCEPT !.respondTo = <<"b">>]),
     String("not json")}

FormatKinds == {"identity", "notAFunction", "wrap", "throws"}

TimeoutValues == {0, 40000}

Undefined == [type |-> "undefined", behaviour |-> "", req |-> 0]

UserHandler(b) == [type |-> "user", behaviour |-> b, req |-> 0]

RequestHandler(r) == [type |-> "request", behaviour |-> "", req |-> r]

TimeoutError == [NoPayload EXCEPT !.kind = "error", !.text = "Timeout error"]

NoError == [kind |-> "none", key |-> NoTopic]

NoMessage ==
    [seen |-> FALSE, topic |-> NoTopic, message |-> String(""), log |-> << >>,
     error |-> NoError]

\* config.transforms as DEFAULTS leaves it: no key for either ensure transform
DefaultTransformsConfig ==
    [ensure |-> [uuid |-> "default", timestamp |-> "default"]]

\* the options argument of request(): undefined, or an object with a
\* timeoutResponseAfter (a sequence with the value, empty when the option
\* is not there)
NoOptions == [timeoutResponseAfter |-> << >>]

Options(timeoutResponseAfter) ==
    [timeoutResponseAfter |-> <<timeoutResponseAfter>>]

\* no call of publish, fastPublish or applyResponseMiddleware yet. log has
\* the transforms called, middlewares the middleware calls with their
\* arguments, sent what was handed to client.publish, previous the result of
\* the applyResponseMiddleware call before this one, steps what the Promise
\* executor of request() did, in order, options the options of a request()
NoCall ==
    [op |-> "none", topic |-> NoTopic, data |-> NoPayload, error |-> NoPayload,
     log |-> << >>, middlewares |-> << >>, result |-> NoPayload,
     raised |-> FALSE, sent |-> << >>, previous |-> NoPayload, steps |-> << >>,
     options |-> NoOptions]

\* the two versions of $initPubSubMQTT with a connection lifecycle
Variants == {"part_000", "lib/init.js"}

\* one client per call of $initPubSubMQTT, each with its own url
Clients == {1, 2}

MaxConnectionAttemptsValues == {1, 2}

\* config.url: the one of DEFAULTS and another broker
Urls == {"mqtt://test.mosquitto.org", "mqtt://b"}

\* onconnect.topic of DEFAULTS
AnnounceTopic == <<"service", "up">>

\* a static handler given in the configuration
StaticHandlers == <<[key |-> <<"s">>, val |-> UserHandler("ok")]>>

\* pubsub after construction; listening is whether the application has
\* registered a listener for the error notification
NewPubsub ==
    [online |-> FALSE, connectionAttempt |-> 0,
     _notifiedInitialConnection |-> FALSE, error |-> "none", listening |-> FALSE]

\* the transport that createClient returned; options is whether it has an
\* options object, 1000 is the reconnectPeriod of a new mqtt client
NewClient(options) ==
    [options |-> options, reconnectPeriod |-> 1000, ended |-> FALSE]

\* the backoff object when the module is loaded; 0 stands for a property
\* that is not set yet
BackoffModule ==
    [initialDelay |-> 100, maxDelay |-> 30000, randomizationFactor |-> 0,
     factor |-> 3, nextBackoffDelay |-> 0, backoffDelay |-> 0, delay |-> 0]

\* Math.random(), in hundredths
RandomValues == {0, 50, 99}

NoEvent ==
    [kind |-> "none", client |-> 0, emitted |-> "none", attempt |-> 0,
     raised |-> FALSE, topics |-> << >>, computed |-> FALSE,
     configured |-> FALSE, ended |-> FALSE, previous |-> 0]

NoHistory ==
    [reconnects |-> [c \in Clients |-> 0], connected |-> [c \in Clients |-> FALSE],
     calls |-> 0]

---------------------------------------------------------------------------
(* The backoff scheduler *)

Min(a, b) == IF a <= b THEN a ELSE b

\* computeDelay() without the cap at maxDelay
computeDelayUncapped(b) ==
    LET b1 == IF b.nextBackoffDelay = 0
              THEN [b EXCEPT !.nextBackoffDelay = b.initialDelay]
              ELSE b
    IN  [b1 EXCEPT !.backoffDelay = b1.nextBackoffDelay,
                   !.nextBackoffDelay = b1.nextBackoffDelay * b1.factor]

\* backoff.computeDelay()
computeDelay(b) ==
    LET b1 == IF b.nextBackoffDelay = 0
              THEN [b EXCEPT !.nextBackoffDelay = b.initialDelay]
              ELSE b
        backoffDelay == Min(b1.nextBackoffDelay, b1.maxDelay)
    IN  [b1 EXCEPT !.backoffDelay = backoffDelay,
                   !.nextBackoffDelay = backoffDelay * b1.factor]

\* Math.round(backoffDelay * (1 + random * randomizationFactor)), random in
\* hundredths
MathRound(backoffDelay, random, randomizationFactor) ==
    (backoffDelay * (100 + random * randomizationFactor) + 50) \div 100

\* backoff.next(): the object after the call; the call returns its delay
next(b, random) ==
    LET b1 == computeDelay(b)
    IN  [b1 EXCEPT !.delay =
            MathRound(b1.backoffDelay, random, b1.randomizationFactor)]

\* reset() that leaves nextBackoffDelay as it is
resetKeepsNext(b) == [b EXCEPT !.backoffDelay = 0, !.delay = 0]

\* backoff.reset()
reset(b) ==
    [b EXCEPT !.backoffDelay = 0, !.delay = 0,
              !.nextBackoffDelay = b.initialDelay]

---------------------------------------------------------------------------
(* match(filter, topic) of mqtt-match: segment by segment *)

RECURSIVE matchFrom(_, _, _)
matchFrom(filter, topic, i) ==
    IF i > Len(filter) THEN Len(filter) = Len(topic)
    ELSE IF filter[i] = "#" THEN Len(topic) >= Len(filter) - 1
    ELSE IF i > Len(topic) THEN FALSE
    ELSE IF filter[i] # "+" /\ filter[i] # topic[i] THEN FALSE
    ELSE matchFrom(filter, topic, i + 1)

\* match without the final comparison of the segment counts
RECURSIVE matchPrefixFrom(_, _, _)
matchPrefixFrom(filter, topic, i) ==
    IF i > Len(filter) THEN TRUE
    ELSE IF filter[i] = "#" THEN Len(topic) >= Len(filter) - 1
    ELSE IF i > Len(topic) THEN FALSE
    ELSE IF filter[i] # "+" /\ filter[i] # topic[i] THEN FALSE
    ELSE matchPrefixFrom(filter, topic, i + 1)

matchPrefix(filter, topic) == matchPrefixFrom(filter, topic, 1)

match(filter, topic) == matchFrom(filter, topic, 1)

---------------------------------------------------------------------------
(* The handler registry *)

RECURSIVE ObjectKeys(_)
ObjectKeys(h) ==
    IF h = << >> THEN << >> ELSE <<Head(h).key>> \o ObjectKeys(Tail(h))

HasKey(h, topic) == \E i \in 1..Len(h) : h[i].key = topic

_getHandlerForTopic(h, topic) ==
    IF HasKey(h, topic)
    THEN (CHOOSE e \in {h[i] : i \in 1..Len(h)} : e.key = topic).val
    ELSE Undefined

\* handlers[topic] = handler: an existing key keeps its place, a new key is
\* appended
_setHandlerForTopic(h, topic, handler) ==
    IF HasKey(h, topic)
    THEN [i \in 1..Len(h) |->
            IF h[i].key = topic THEN [key |-> topic, val |-> handler] ELSE h[i]]
    ELSE Append(h, [key |-> topic, val |-> handler])

---------------------------------------------------------------------------
(* The caller's pending result: resolve and reject of a Promise act only   *)
(* on a pending promise.                                                   *)

\* a result slot that takes every call of resolve or reject
PromiseSettleOverwrite(req, outcome, value) ==
    [req EXCEPT !.result = outcome, !.value = value]

PromiseSettle(req, outcome, value) ==
    IF req.result = "pending"
    THEN [req EXCEPT !.result = outcome, !.value = value]
    ELSE req

---------------------------------------------------------------------------
(* Inbound payloads *)

\* JSON.parse(message.toString()), with the catch branch
JSONParse(message) ==
    IF message.kind # "string" \/ message.suffix # << >>
    THEN [ok |-> FALSE, value |-> NoPayload]
    ELSE IF message.quotes > 0
    THEN [ok |-> TRUE, value |-> [message EXCEPT !.quotes = @ - 1]]
    ELSE IF message.enc \in {"object", "null", "number", "boolean"}
    THEN [ok |-> TRUE, value |-> [message EXCEPT !.kind = message.enc, !.enc = ""]]
    ELSE [ok |-> FALSE, value |-> NoPayload]

decode(message) ==
    LET parsed == JSONParse(message)
    IN  IF parsed.ok THEN parsed.value ELSE message

\* the responder attached without looking at payload[topicKey]
attachResponderAlways(payload) == [payload EXCEPT !.response = TRUE]

\* if (payload[topicKey]) payload[callerKey] = function(data, error) {...}
attachResponder(payload) ==
    IF payload.respondTo # NoTopic
    THEN [payload EXCEPT !.response = TRUE]
    ELSE payload

\* options.format(event) where it returns
applyFormat(format, event) ==
    IF format = "wrap" THEN [event EXCEPT !.kind = "formatted"] ELSE event

---------------------------------------------------------------------------
(* The transform pipeline *)

\* what config.transforms.ensure.uuid and .timestamp can be: the key left
\* out ("default") or the value false
EnsureOptions == {"default", "false"}

\* the functions an application adds with addTransform, and a value that is
\* not a function
CustomTransforms == {"t1", "t2"}

NotAFunction == "notAFunction"

\* the value an object has under the field of an ensure transform: none,
\* one that is falsy (0, '', null, false), a truthy one of the caller, or
\* the one the generator returned
FieldValues == {Absent, "falsy", "own", "generated"}

\* an $init that always returns $transform
ensureInitIgnoresOption(name, option) == name

\* $init(config): false when the option is false, else $transform
ensureInit(name, option) == IF option = "false" THEN NotAFunction ELSE name

\* pubsub.addTransform(transform)
addTransform(transforms, transform) ==
    IF transform = NotAFunction THEN transforms ELSE Append(transforms, transform)

\* pubsub.addResponseMiddleware(middleware)
addResponseMiddleware(middlewares, middleware) ==
    IF middleware = NotAFunction THEN middlewares
    ELSE Append(middlewares, middleware)

\* pubsub after the three addTransform calls of $initPubSubMQTT; nothing
\* assigns pubsub.responseMiddleware there, and applyResponseMiddleware
\* treats undefined as it treats an empty array
NewPipeline(cfg) ==
    [_transforms |->
        addTransform(
            addTransform(
                addTransform(<< >>,
                    ensureInit("ensure.uuid", cfg.transforms.ensure.uuid)),
                ensureInit("ensure.timestamp", cfg.transforms.ensure.timestamp)),
            "serialize"),
     responseMiddleware |-> << >>]

\* $transform(data) of ensure.uuid and ensure.timestamp. In strict mode the
\* assignment to a field of a string throws, and so does reading a field of
\* undefined
ensureTransform(field, data) ==
    IF data.kind \in {"string", "none", "null", "number", "boolean"}
    THEN [ok |-> FALSE, value |-> data]
    ELSE [ok |-> TRUE,
          value |-> IF data[field] \in {Absent, "falsy"}
                    THEN [data EXCEPT ![field] = "generated"] ELSE data]

\* tx(_data, this): a custom transform appends its name to the text it gets
applyTransform(tx, data) ==
    IF tx = "ensure.uuid" THEN ensureTransform("uuid", data)
    ELSE IF tx = "ensure.timestamp" THEN ensureTransform("timestamp", data)
    ELSE IF tx = "serialize"
    THEN [ok |-> TRUE,
          value |-> JSONStringify(IF data.kind = "none" THEN Object("") ELSE data)]
    ELSE [ok |-> TRUE, value |-> [data EXCEPT !.suffix = Append(@, tx)]]

\* _transforms.reduce(...): log has one entry per transform called, with
\* the value it was given
RECURSIVE reduceTransforms(_, _, _)
reduceTransforms(transforms, data, log) ==
    IF transforms = << >>
    THEN [raised |-> FALSE, value |-> data, log |-> log]
    ELSE LET r == applyTransform(Head(transforms), data)
             entry == [tx |-> Head(transforms), input |-> data]
         IN  IF ~r.ok
             THEN [raised |-> TRUE, value |-> NoPayload, log |-> Append(log, entry)]
             ELSE reduceTransforms(Tail(transforms), r.value, Append(log, entry))

\* pubsub.applyTransforms(data = {})
applyTransforms(transforms, data) ==
    reduceTransforms(transforms,
                     IF data.kind = "none" THEN Object("") ELSE data, << >>)

\* pubsub.publish(topic, data = ''): what it hands to client.publish
publish(transforms, topic, data) ==
    LET r == applyTransforms(transforms,
                             IF data.kind = "none" THEN String("") ELSE data)
    IN  [raised |-> r.raised, log |-> r.log,
         sent |-> IF r.raised THEN << >>
                  ELSE <<[topic |-> topic, message |-> r.value]>>]

\* a fastPublish that goes through publish
fastPublishTransformed(transforms, topic, data) == publish(transforms, topic, data)

\* pubsub.fastPublish(topic, data)
fastPublish(transforms, topic, data) ==
    [raised |-> FALSE, log |-> << >>,
     sent |-> <<[topic |-> topic,
                 message |-> IF data.kind = "string" THEN data
                             ELSE JSONStringify(data)]>>]

---------------------------------------------------------------------------
(* The response middleware *)

Middlewares == {"m1", "m2"}

\* new Error(...) made by a handler
HandlerFailure == [NoPayload EXCEPT !.kind = "error", !.text = "failure"]

\* middleware(response, data, error): it sets a field of its own name on
\* the response it was given and returns it
applyMiddleware(middleware, response, data, error) ==
    [response EXCEPT !.marks = Append(@, middleware)]

RECURSIVE reduceMiddleware(_, _, _, _, _)
reduceMiddleware(middlewares, response, data, error, log) ==
    IF middlewares = << >> THEN [value |-> response, log |-> log]
    ELSE reduceMiddleware(
             Tail(middlewares),
             applyMiddleware(Head(middlewares), response, data, error),
             data, error,
             Append(log, [middleware |-> Head(middlewares),
                          response |-> response, data |-> data,
                          error |-> error]))

\* a reduce that starts from data
applyResponseMiddlewareFromData(middlewares, data, error) ==
    reduceMiddleware(middlewares, data, data, error, << >>)

\* pubsub.applyResponseMiddleware(data, error)
applyResponseMiddleware(middlewares, data, error) ==
    IF Len(middlewares) > 0
    THEN reduceMiddleware(middlewares, Object(""), data, error, << >>)
    ELSE [value |-> data, log |-> << >>]

---------------------------------------------------------------------------
(* request(): the transient handler $handler and the timeout callback *)

\* $handler without the clearTimeout line
clearTimeoutSkipped(req) == req

\* if (_handler._timeoutId) clearTimeout(_handler._timeoutId)
clearTimeout(req) ==
    IF req.timer = "armed" THEN [req EXCEPT !.timer = "cleared"] ELSE req

\* $handler(topic, event) of request r, run inside a dispatch whose state so
\* far is st; key is the registry key it was found under
requestHandler(r, key, event, st) ==
    LET req1 == [clearTimeout(st.reqs[r]) EXCEPT !.ran = TRUE, !.event = event]
        h1 == _setHandlerForTopic(st.handlers, req1.responseTopic, Undefined)
        entry == [key |-> key, handler |-> RequestHandler(r), payload |-> event,
                  outcome |-> "returned", call |-> NoCall]
    IN  IF config.responseOptions.format = "throws"
        THEN [st EXCEPT !.handlers = h1,
                        !.reqs = [@ EXCEPT ![r] = req1],
                        !.log = Append(@, [entry EXCEPT !.outcome = "threw"]),
                        !.error = [kind |-> "FormatError", key |-> key]]
        ELSE LET value == IF config.responseOptions.format = "notAFunction"
                          THEN event
                          ELSE applyFormat(config.responseOptions.format, event)
             IN  [st EXCEPT !.handlers = h1,
                            !.reqs = [@ EXCEPT ![r] =
                                        PromiseSettle(req1, "resolved", value)],
                            !.log = Append(@, entry)]

---------------------------------------------------------------------------
(* client.on('message'): the body of the map over Object.keys *)

\* the handlers that call the responder: payload.response(payload) and
\* payload.response(undefined, new Error(...))
Responding == {"responds", "respondsError"}

\* payload[callerKey](data, error), the function the dispatch attached
responder(pl, payload, data, error) ==
    LET message == applyResponseMiddleware(pl.responseMiddleware, data, error)
        p == publish(pl._transforms, payload.respondTo, message.value)
    IN  [NoCall EXCEPT
            !.op = "responder", !.topic = payload.respondTo, !.data = data,
            !.error = error, !.middlewares = message.log,
            !.result = message.value,
            !.log = p.log, !.raised = p.raised, !.sent = p.sent]

dispatchKey(key, topic, message, st) ==
    IF ~match(key, topic) THEN st
    ELSE
      LET handler == _getHandlerForTopic(st.handlers, key)
          payload == attachResponder(decode(message))
          entry == [key |-> key, handler |-> handler, payload |-> payload,
                    outcome |-> "returned", call |-> NoCall]
      IN  IF payload.kind = "null"
          THEN \* payload[topicKey] on null, before the handler is called
               [st EXCEPT !.error = [kind |-> "TypeError", key |-> key]]
          ELSE IF handler.type = "undefined"
          THEN \* handler.call on undefined
               [st EXCEPT !.log = Append(@, [entry EXCEPT !.outcome = "notCallable"]),
                          !.error = [kind |-> "TypeError", key |-> key]]
          ELSE IF handler.type = "user"
          THEN IF handler.behaviour = "throws"
               THEN [st EXCEPT !.log = Append(@, [entry EXCEPT !.outcome = "threw"]),
                               !.error = [kind |-> "HandlerError", key |-> key]]
               ELSE IF handler.behaviour \in Responding
               THEN IF ~payload.response
                    THEN \* payload.response is not a function
                         [st EXCEPT
                             !.log = Append(@, [entry EXCEPT !.outcome = "threw"]),
                             !.error = [kind |-> "TypeError", key |-> key]]
                    ELSE LET call == responder(
                                        st.pipeline, payload,
                                        IF handler.behaviour = "responds"
                                        THEN payload ELSE NoPayload,
                                        IF handler.behaviour = "responds"
                                        THEN NoPayload ELSE HandlerFailure)
                         IN  IF call.raised
                             THEN [st EXCEPT
                                     !.log = Append(@, [entry EXCEPT
                                                          !.outcome = "threw",
                                                          !.call = call]),
                                     !.error = [kind |-> "TypeError", key |-> key]]
                             ELSE [st EXCEPT
                                     !.log = Append(@, [entry EXCEPT !.call = call]),
                                     !.out = @ \o call.sent]
               ELSE [st EXCEPT !.log = Append(@, entry)]
          ELSE requestHandler(handler.req, key, payload, st)

\* an exception leaves the map: the keys after it are not visited
RECURSIVE dispatchKeys(_, _, _, _)
dispatchKeys(keys, topic, message, st) ==
    IF keys = << >> \/ st.error # NoError THEN st
    ELSE dispatchKeys(Tail(keys), topic, message,
                      dispatchKey(Head(keys), topic, message, st))

---------------------------------------------------------------------------
(* Making clients *)

\* a createClient without the cache: every call opens a transport
createClientUncached(cache, opened, options) ==
    [cache |-> [cache EXCEPT ![options.url] = Len(opened) + 1],
     opened |-> Append(opened, [url |-> options.url, listeners |-> << >>,
                                emitted |-> << >>]),
     client |-> Len(opened) + 1]

\* DEFAULTS.createClient(options) with the cache _clients and the
\* transports opened so far: the cached transport of options.url, or a new
\* one from mqtt.connect that goes into the cache
createClient(cache, opened, options) ==
    IF cache[options.url] # 0
    THEN [cache |-> cache, opened |-> opened, client |-> cache[options.url]]
    ELSE [cache |-> [cache EXCEPT ![options.url] = Len(opened) + 1],
          opened |-> Append(opened, [url |-> options.url, listeners |-> << >>,
                                     emitted |-> << >>]),
          client |-> Len(opened) + 1]

---------------------------------------------------------------------------
(* Initial state: after $initPubSubMQTT returned, no static handlers *)

\* the two clients were made with different urls
MadeIdle ==
    /\ _clients = [u \in Urls |-> IF u = "mqtt://b" THEN 2 ELSE 1]
    /\ transports =
          <<[url |-> "mqtt://test.mosquitto.org", listeners |-> <<1>>,
             emitted |-> << >>],
            [url |-> "mqtt://b", listeners |-> <<2>>, emitted |-> << >>]>>
    /\ instances =
          <<[url |-> "mqtt://test.mosquitto.org", client |-> 1, since |-> 0,
             seen |-> << >>],
            [url |-> "mqtt://b", client |-> 2, since |-> 0, seen |-> << >>]>>

\* the pipelines as constructed, no call yet, nothing in the transport and
\* no other process
PipeIdle ==
    /\ pipeline = NewPipeline(config)
    /\ lastCall = NoCall
    /\ inflight = {}
    /\ remote = << >>

\* no transport event yet, the backoff module just loaded
ConnIdle ==
    /\ variant = "part_000"
    /\ pubsub = [c \in Clients |-> NewPubsub]
    /\ client = [c \in Clients |-> NewClient(TRUE)]
    /\ backoff = BackoffModule
    /\ lastEvent = NoEvent
    /\ observed = NoHistory

Init ==
    /\ config \in [responseOptions :
                      [format : FormatKinds, timeoutResponseAfter : TimeoutValues],
                   connectionNeeded : {TRUE},
                   transforms : {DefaultTransformsConfig},
                   responseMiddleware : {<< >>},
                   timeoutResponseAfter : {40000},
                   maxConnectionAttempts : {8}]
    /\ handlers = << >>
    /\ reqs = << >>
    /\ subscribed = {}
    /\ published = {}
    /\ last = NoMessage
    /\ MadeIdle
    /\ PipeIdle
    /\ ConnIdle

---------------------------------------------------------------------------
(* Public operations *)

\* pubsub.subscribe(topic, handler)
Subscribe(topic, behaviour) ==
    /\ handlers' = _setHandlerForTopic(handlers, topic, UserHandler(behaviour))
    /\ subscribed' = subscribed \cup {topic}
    /\ UNCHANGED <<config, reqs, published, last>>
    /\ UNCHANGED conn
    /\ UNCHANGED pipe
    /\ UNCHANGED made

\* makeGuid(): a string not returned before (the first unused one of the
\* pool) or, when the clock and Math.random() repeat, one returned before
makeGuid ==
    LET used == {reqs[i].rndm : i \in 1..Len(reqs)}
        unused == {i \in 1..Len(GuidPool) : GuidPool[i] \notin used}
    IN  used \cup {GuidPool[i] : i \in {j \in unused : \A k \in unused : j <= k}}

\* the clients of the other process whose subscriptions match topic:
\* client 1 is this client, client 2 the one in the other process. What a
\* client receives of its own messages is a Message event like any other.
Receivers(from, topic) ==
    {c \in Clients \ {from} :
        \/ c = 1 /\ \E t \in subscribed : match(t, topic)
        \/ c = 2 /\ \E i \in 1..Len(remote) : match(remote[i].key, topic)}

\* client.publish of each message of sent by client from: the transport
\* holds one copy per receiver
transmit(from, sent) ==
    UNION {{[to |-> c, topic |-> sent[i].topic, message |-> sent[i].message] :
               c \in Receivers(from, sent[i].topic)} : i \in 1..Len(sent)}

\* the same calls as the published variable records them
handedOver(sent) ==
    {[topic |-> sent[i].topic, respondTo |-> sent[i].message.respondTo] :
        i \in 1..Len(sent)}

\* an _appendToPayload that returns the payload without the topicKey field
_appendToPayloadWithoutTopic(payload, responseTopic) ==
    [ok |-> TRUE, value |-> IF payload.kind = "object" THEN payload ELSE Object("")]

\* pubsub._appendToPayload(payload, {[topicKey]: responseTopic}): the fields
\* of payload are copied over the new one, so a topicKey field of the
\* caller stays; JSON.parse of a string that is not JSON throws
_appendToPayload(payload, responseTopic) ==
    LET parsed == JSONParse(payload)
        object == IF payload.kind = "none" \/ payload = String("")
                  THEN Object("")
                  ELSE IF payload.kind = "string" THEN parsed.value
                  ELSE payload
    IN  [ok |-> payload.kind = "string" /\ payload # String("") => parsed.ok,
         value |-> [object EXCEPT !.respondTo =
                                     IF @ # NoTopic THEN @ ELSE responseTopic]]

\* the fields of the caller of request()
RequestData == Object("x:1")

\* the exception of a transform, caught by the Promise executor
PublishError == [NoPayload EXCEPT !.kind = "error", !.text = "TypeError"]

\* extend({}, defaultResponseOptions, config.responseOptions, options) as
\* far as timeoutResponseAfter goes: the option of the call, else the one of
\* config.responseOptions (40000 in DEFAULTS and in defaultResponseOptions)
extendOptions(cfg, options) ==
    [timeoutResponseAfter |->
        IF options.timeoutResponseAfter # << >>
        THEN options.timeoutResponseAfter[1]
        ELSE cfg.responseOptions.timeoutResponseAfter]

\* an executor that publishes before it subscribes
executorPublishesFirst(_timeoutResponseAfter) ==
    <<"publish", "subscribe">>
        \o (IF _timeoutResponseAfter # 0 THEN <<"setTimeout">> ELSE << >>)

\* the statements of the Promise executor of request() in the order of the
\* code: setTimeout unless the timeout is falsy, pubsub.subscribe,
\* pubsub.publish
executor(_timeoutResponseAfter) ==
    (IF _timeoutResponseAfter # 0 THEN <<"setTimeout">> ELSE << >>)
        \o <<"subscribe", "publish">>

\* the statements run one after the other on st, which has the registry,
\* the subscriptions, the timer and what was handed to client.publish; each
\* one is logged with what it found for the response topic. An exception
\* ends the executor.
RECURSIVE execute(_, _, _)
execute(statements, call, st) ==
    IF statements = << >> \/ st.raised THEN st
    ELSE
    LET found == [statement |-> Head(statements),
                  handler |-> _getHandlerForTopic(st.handlers, call.responseTopic),
                  subscribed |-> call.responseTopic \in st.subscribed,
                  timer |-> st.timer]
        p == publish(call.transforms, call.topic, call.payload)
        done ==
            CASE Head(statements) = "setTimeout" ->
                    [st EXCEPT !.timer = "armed",
                               !.delay = call._timeoutResponseAfter]
              [] Head(statements) = "subscribe" ->
                    [st EXCEPT !.handlers =
                                   _setHandlerForTopic(@, call.responseTopic,
                                                       RequestHandler(call.r)),
                               !.subscribed = @ \cup {call.responseTopic}]
              [] Head(statements) = "publish" ->
                    [st EXCEPT !.raised = p.raised, !.sent = p.sent]
    IN  execute(Tail(statements), call, [done EXCEPT !.steps = Append(@, found)])

\* pubsub.request(topic, data, options): rndm is what makeGuid() returned
request(topic, data, options, rndm) ==
    LET r == Len(reqs) + 1
        _timeoutResponseAfter == extendOptions(config, options).timeoutResponseAfter
        responseTopic == topic \o <<"res", rndm>>
        payload == _appendToPayload(data, responseTopic)
        st == execute(executor(_timeoutResponseAfter),
                      [r |-> r, topic |-> topic, responseTopic |-> responseTopic,
                       payload |-> payload.value,
                       transforms |-> pipeline._transforms,
                       _timeoutResponseAfter |-> _timeoutResponseAfter],
                      [handlers |-> handlers, subscribed |-> subscribed,
                       timer |-> "none", delay |-> 0, raised |-> FALSE,
                       sent |-> << >>, steps |-> << >>])
        req == [topic |-> topic,
                rndm |-> rndm,
                responseTopic |-> responseTopic,
                timer |-> st.timer,
                delay |-> st.delay,
                result |-> "pending",
                value |-> NoPayload,
                ran |-> FALSE,
                event |-> NoPayload]
        call == [NoCall EXCEPT !.op = "request", !.topic = topic, !.data = data,
                               !.options = options]
    IN  /\ IF ~payload.ok
           THEN /\ lastCall' = [call EXCEPT !.raised = TRUE]
                /\ UNCHANGED <<reqs, handlers, subscribed, published, inflight>>
           ELSE /\ reqs' = Append(reqs,
                                  IF st.raised
                                  THEN PromiseSettle(req, "rejected", PublishError)
                                  ELSE req)
                /\ handlers' = st.handlers
                /\ subscribed' = st.subscribed
                /\ published' = published \cup handedOver(st.sent)
                /\ inflight' = inflight \cup transmit(1, st.sent)
                /\ lastCall' = [call EXCEPT !.sent = st.sent, !.steps = st.steps]
        /\ UNCHANGED <<config, last, pipeline, remote>>
        /\ UNCHANGED conn
        /\ UNCHANGED made

\* a request() call with the fields RequestData
Request(topic, rndm) ==
    /\ Len(reqs) < MaxRequests
    /\ request(topic, RequestData, NoOptions, rndm)

\* pubsub.publish(topic, data)
Publish(topic, data) ==
    /\ LET r == publish(pipeline._transforms, topic, data)
       IN  /\ lastCall' = [NoCall EXCEPT
                              !.op = "publish", !.topic = topic, !.data = data,
                              !.log = r.log, !.raised = r.raised,
                              !.sent = r.sent]
           /\ inflight' = inflight \cup transmit(1, r.sent)
           /\ published' = published \cup handedOver(r.sent)
    /\ UNCHANGED <<config, handlers, reqs, subscribed, last, pipeline, remote>>
    /\ UNCHANGED conn
    /\ UNCHANGED made

\* pubsub.fastPublish(topic, data)
FastPublish(topic, data) ==
    /\ LET r == fastPublish(pipeline._transforms, topic, data)
       IN  /\ lastCall' = [NoCall EXCEPT
                              !.op = "fastPublish", !.topic = topic,
                              !.data = data, !.log = r.log,
                              !.raised = r.raised, !.sent = r.sent]
           /\ inflight' = inflight \cup transmit(1, r.sent)
           /\ published' = published \cup handedOver(r.sent)
    /\ UNCHANGED <<config, handlers, reqs, subscribed, last, pipeline, remote>>
    /\ UNCHANGED conn
    /\ UNCHANGED made

\* pubsub.addTransform(transform)
AddTransform(transform) ==
    /\ Len(pipeline._transforms) < MaxTransforms
    /\ pipeline' = [pipeline EXCEPT
                       !._transforms = addTransform(@, transform)]
    /\ UNCHANGED <<config, handlers, reqs, subscribed, published, last,
                   lastCall, inflight, remote>>
    /\ UNCHANGED conn
    /\ UNCHANGED made

\* pubsub.addResponseMiddleware(middleware)
AddResponseMiddleware(middleware) ==
    /\ Len(pipeline.responseMiddleware) < MaxMiddlewares
    /\ pipeline' = [pipeline EXCEPT
                       !.responseMiddleware = addResponseMiddleware(@, middleware)]
    /\ UNCHANGED <<config, handlers, reqs, subscribed, published, last,
                   lastCall, inflight, remote>>
    /\ UNCHANGED conn
    /\ UNCHANGED made

\* pubsub.applyResponseMiddleware(data, error)
ApplyResponseMiddleware(data, error) ==
    /\ LET r == applyResponseMiddleware(pipeline.responseMiddleware, data, error)
       IN  lastCall' = [NoCall EXCEPT
                          !.op = "applyResponseMiddleware", !.data = data,
                          !.error = error, !.middlewares = r.log,
                          !.result = r.value,
                          !.previous = lastCall.result]
    /\ UNCHANGED <<config, handlers, reqs, subscribed, published, last,
                   pipeline, inflight, remote>>
    /\ UNCHANGED conn
    /\ UNCHANGED made

---------------------------------------------------------------------------
(* Timer and transport events *)

\* the setTimeout callback of request r
TimerFire(r) ==
    /\ r \in 1..Len(reqs)
    /\ reqs[r].timer = "armed"
    /\ reqs' = [reqs EXCEPT ![r] =
                   PromiseSettle([@ EXCEPT !.timer = "fired"], "rejected",
                                 TimeoutError)]
    /\ UNCHANGED <<config, handlers, subscribed, published, last>>
    /\ UNCHANGED conn
    /\ UNCHANGED pipe
    /\ UNCHANGED made

\* the dispatch of one 'message' event of this client
onMessage(topic, message) ==
    dispatchKeys(ObjectKeys(handlers), topic, message,
                 [handlers |-> handlers, reqs |-> reqs, log |-> << >>,
                  error |-> NoError, pipeline |-> pipeline, out |-> << >>])

\* client.on('message', (topic, message) => ...), the transport being left
\* with the messages rest
receive(topic, message, rest) ==
    LET st == onMessage(topic, message)
    IN  /\ handlers' = st.handlers
        /\ reqs' = st.reqs
        /\ last' = [seen |-> TRUE, topic |-> topic, message |-> message,
                    log |-> st.log, error |-> st.error]
        /\ published' = published \cup handedOver(st.out)
        /\ inflight' = rest \cup transmit(1, st.out)
        /\ UNCHANGED <<config, subscribed, pipeline, lastCall, remote>>
        /\ UNCHANGED conn
        /\ UNCHANGED made

\* a 'message' event with any topic and body
Message(topic, message) == receive(topic, message, inflight)

\* the transport delivers a message that the other process published
Deliver(m) ==
    /\ m \in inflight
    /\ m.to = 1
    /\ receive(m.topic, m.message, inflight \ {m})

\* the transport delivers a message to the client of the other process,
\* which has the default pipelines and no request of its own
RemoteDeliver(m) ==
    /\ m \in inflight
    /\ m.to = 2
    /\ LET st == dispatchKeys(ObjectKeys(remote), m.topic, m.message,
                              [handlers |-> remote, reqs |-> << >>,
                               log |-> << >>, error |-> NoError,
                               pipeline |-> NewPipeline(config), out |-> << >>])
       IN  inflight' = (inflight \ {m}) \cup transmit(2, st.out)
    /\ UNCHANGED <<config, handlers, reqs, subscribed, published, last,
                   pipeline, lastCall, remote>>
    /\ UNCHANGED conn
    /\ UNCHANGED made

---------------------------------------------------------------------------
(* Transport events of the connection lifecycle *)

\* only the handlers given in the configuration
registryStaticOnly(c) == IF c = 1 THEN StaticHandlers ELSE << >>

\* config.handlers of client c
registry(c) == IF c = 1 THEN handlers ELSE << >>

RECURSIVE Range(_)
Range(seq) == IF seq = << >> THEN {} ELSE {Head(seq)} \cup Range(Tail(seq))

\* the name under which the 'error' handler of the transport notifies
errorNotification(v) == IF v = "part_000" THEN "client.error" ELSE "error"

\* pubsub.emit(name, ...): an EventEmitter throws on 'error' when nothing
\* listens for it
emit(name, listening) ==
    [emitted |-> name, raised |-> (name = "error" /\ ~listening)]

\* 'ready' on every connect event
notifyConnectionAlwaysReady(notified) == "ready"

\* if (!pubsub._notifiedInitialConnection) ... emit('ready') else
\* emit('connect')
notifyConnection(notified) == IF ~notified THEN "ready" ELSE "connect"

\* a connect event that leaves connectionAttempt as it is
onConnectKeepsAttempt(p) ==
    [p EXCEPT !.online = TRUE, !._notifiedInitialConnection = TRUE]

\* what the 'connect' handler assigns on pubsub
onConnect(p) ==
    [p EXCEPT !.online = TRUE, !.connectionAttempt = 0,
              !._notifiedInitialConnection = TRUE]

\* an offline event that also starts the attempts over
onOfflineResetsAttempt(p) == [p EXCEPT !.online = FALSE, !.connectionAttempt = 0]

\* what the 'offline' handler assigns on pubsub
onOffline(p) == [p EXCEPT !.online = FALSE]

\* the comparison with >= in place of >
exceededAtMax(attempt, maxConnectionAttempts) == attempt >= maxConnectionAttempts

\* pubsub.connectionAttempt > config.maxConnectionAttempts
exceeded(attempt, maxConnectionAttempts) == attempt > maxConnectionAttempts

\* pubsub.on(<error notification>, listener), by the application
On(c) ==
    /\ ~pubsub[c].listening
    /\ pubsub' = [pubsub EXCEPT ![c].listening = TRUE]
    /\ UNCHANGED <<config, handlers, reqs, subscribed, published, last,
                   variant, client, backoff, lastEvent, observed>>
    /\ UNCHANGED pipe
    /\ UNCHANGED made

\* client.on('connect', ...)
Connect(c) ==
    /\ ~client[c].ended
    /\ LET topics == ObjectKeys(registry(c))
       IN  /\ pubsub' = [pubsub EXCEPT ![c] = onConnect(@)]
           /\ backoff' = IF variant = "part_000" THEN reset(backoff) ELSE backoff
           /\ published' = published \cup
                              {[topic |-> AnnounceTopic, respondTo |-> NoTopic]}
           /\ subscribed' = subscribed \cup Range(topics)
           /\ lastEvent' = [NoEvent EXCEPT
                          !.kind = "connect", !.client = c, !.topics = topics,
                          !.emitted = notifyConnection(
                                          pubsub[c]._notifiedInitialConnection)]
           /\ observed' = [observed EXCEPT
                             !.reconnects[c] = 0, !.connected[c] = TRUE,
                             !.calls = IF variant = "part_000" THEN 0 ELSE @]
    /\ UNCHANGED <<config, handlers, reqs, last, variant, client>>
    /\ UNCHANGED pipe
    /\ UNCHANGED made

\* client.on('reconnect', ...); random is what Math.random() returns if
\* backoff.next() is called
Reconnect(c, random) ==
    /\ ~client[c].ended
    /\ pubsub[c].connectionAttempt < MaxReconnects
    /\ LET attempt == pubsub[c].connectionAttempt + 1
           fatal == /\ exceeded(attempt, config.maxConnectionAttempts)
                    /\ config.connectionNeeded
           updates == variant = "part_000" /\ client[c].options
           b1 == IF updates THEN next(backoff, random) ELSE backoff
       IN  /\ pubsub' = [pubsub EXCEPT ![c].online = FALSE,
                                       ![c].connectionAttempt = attempt]
           /\ observed' = [observed EXCEPT
                             !.reconnects[c] = @ + 1,
                             !.calls = IF ~fatal /\ updates THEN @ + 1 ELSE @]
           /\ IF fatal
              THEN \* throw new Error('Unable to stablish a connection ...')
                   /\ lastEvent' = [NoEvent EXCEPT
                                  !.kind = "reconnect", !.client = c,
                                  !.attempt = attempt, !.raised = TRUE]
                   /\ UNCHANGED <<client, backoff>>
              ELSE /\ backoff' = b1
                   /\ client' = [client EXCEPT
                                   ![c].ended =
                                       exceeded(attempt,
                                                config.maxConnectionAttempts),
                                   ![c].reconnectPeriod =
                                       IF updates THEN b1.delay ELSE @]
                   /\ lastEvent' = [NoEvent EXCEPT
                                  !.kind = "reconnect", !.client = c,
                                  !.attempt = attempt, !.emitted = "reconnect",
                                  !.ended =
                                      exceeded(attempt,
                                               config.maxConnectionAttempts),
                                  !.computed = updates,
                                  !.configured = updates,
                                  !.previous = backoff.delay]
    /\ UNCHANGED <<config, handlers, reqs, subscribed, published, last, variant>>
    /\ UNCHANGED pipe
    /\ UNCHANGED made

\* client.on('offline', ...)
Offline(c) ==
    /\ pubsub' = [pubsub EXCEPT ![c] = onOffline(@)]
    /\ lastEvent' = [NoEvent EXCEPT
                   !.kind = "offline", !.client = c, !.emitted = "offline"]
    /\ UNCHANGED <<config, handlers, reqs, subscribed, published, last,
                   variant, client, backoff, observed>>
    /\ UNCHANGED pipe
    /\ UNCHANGED made

\* client.on('error', (err) => ...)
Error(c) ==
    /\ pubsub' = [pubsub EXCEPT ![c].error = "err"]
    /\ LET e == emit(errorNotification(variant), pubsub[c].listening)
       IN  lastEvent' = [NoEvent EXCEPT
                       !.kind = "error", !.client = c,
                       !.emitted = e.emitted, !.raised = e.raised]
    /\ UNCHANGED <<config, handlers, reqs, subscribed, published, last,
                   variant, client, backoff, observed>>
    /\ UNCHANGED pipe
    /\ UNCHANGED made

\* client.on('close', ...): it only logs
Close(c) ==
    /\ lastEvent' = [NoEvent EXCEPT !.kind = "close", !.client = c]
    /\ UNCHANGED <<config, handlers, reqs, subscribed, published, last,
                   variant, pubsub, client, backoff, observed>>
    /\ UNCHANGED pipe
    /\ UNCHANGED made

---------------------------------------------------------------------------

Next ==
    \/ \E topic \in SubscribePatterns, b \in HandlerBehaviours : Subscribe(topic, b)
    \/ \E topic \in RequestTopics, rndm \in makeGuid : Request(topic, rndm)
    \/ \E r \in 1..MaxRequests : TimerFire(r)
    \/ \E topic \in MessageTopics, message \in WireMessages : Message(topic, message)

Spec == Init /\ [][Next]_vars

---------------------------------------------------------------------------
(* The dispatch of one message against one static handler, for every       *)
(* pattern and topic over a small segment alphabet                         *)

Segments == {"a", "b", "c"}

SeqsUpTo(S, n) == UNION {[1..k -> S] : k \in 1..n}

\* '#' only as the last segment
Filters ==
    {f \in SeqsUpTo(Segments \cup {"+", "#"}, MaxFilterLen) :
        \A i \in 1..(Len(f) - 1) : f[i] # "#"}

MatchTopics == SeqsUpTo(Segments, MaxTopicLen)

MatchInit ==
    /\ config = [responseOptions |->
                    [format |-> "identity", timeoutResponseAfter |-> 40000],
                 connectionNeeded |-> TRUE,
                 transforms |-> DefaultTransformsConfig,
                 responseMiddleware |-> << >>,
                 timeoutResponseAfter |-> 40000,
                 maxConnectionAttempts |-> 8]
    /\ \E f \in Filters : handlers = <<[key |-> f, val |-> UserHandler("ok")]>>
    /\ reqs = << >>
    /\ subscribed = {}
    /\ published = {}
    /\ last = NoMessage
    /\ MadeIdle
    /\ PipeIdle
    /\ ConnIdle

\* one message per behaviour
MatchNext ==
    /\ ~last.seen
    /\ \E topic \in MatchTopics : Message(topic, JSONStringify(Object("v:1")))

MatchSpec == MatchInit /\ [][MatchNext]_vars

---------------------------------------------------------------------------
(* One client: the transport events interleaved with the public operations *)
(* and the dispatch                                                        *)

\* the response topic of the first request
ConnMessageTopics == {t \o <<"res", GuidPool[1]>> : t \in RequestTopics}

ConnInit ==
    /\ config \in [responseOptions :
                      [format : {"identity"}, timeoutResponseAfter : {40000}],
                   connectionNeeded : BOOLEAN,
                   transforms : {DefaultTransformsConfig},
                   responseMiddleware : {<< >>},
                   timeoutResponseAfter : {40000},
                   maxConnectionAttempts : MaxConnectionAttemptsValues]
    /\ handlers = StaticHandlers
    /\ reqs = << >>
    /\ subscribed = {}
    /\ published = {}
    /\ last = NoMessage
    /\ MadeIdle
    /\ PipeIdle
    /\ variant \in Variants
    /\ pubsub = [c \in Clients |-> NewPubsub]
    /\ \E options \in BOOLEAN :
          client = [c \in Clients |-> NewClient(options)]
    /\ backoff = BackoffModule
    /\ lastEvent = NoEvent
    /\ observed = NoHistory

ConnNext ==
    \/ Connect(1)
    \/ \E random \in RandomValues : Reconnect(1, random)
    \/ Offline(1)
    \/ Error(1)
    \/ Close(1)
    \/ On(1)
    \/ \E topic \in SubscribePatterns : Subscribe(topic, "ok")
    \/ \E topic \in RequestTopics, rndm \in makeGuid :
          \* lib/init.js has no request(); one request is enough here
          variant = "part_000" /\ reqs = << >> /\ Request(topic, rndm)
    \/ \E r \in 1..MaxRequests : TimerFire(r)
    \/ \E topic \in ConnMessageTopics : Message(topic, JSONStringify(Object("v:1")))

ConnSpec == ConnInit /\ [][ConnNext]_vars

---------------------------------------------------------------------------
(* Two clients with different urls in one process: their connect and       *)
(* reconnect events                                                        *)

TwoClientInit ==
    /\ config \in [responseOptions :
                      [format : {"identity"}, timeoutResponseAfter : {40000}],
                   connectionNeeded : BOOLEAN,
                   transforms : {DefaultTransformsConfig},
                   responseMiddleware : {<< >>},
                   timeoutResponseAfter : {40000},
                   maxConnectionAttempts : MaxConnectionAttemptsValues]
    /\ handlers = << >>
    /\ reqs = << >>
    /\ subscribed = {}
    /\ published = {}
    /\ last = NoMessage
    /\ MadeIdle
    /\ PipeIdle
    /\ ConnIdle

TwoClientNext ==
    \/ \E c \in Clients : Connect(c)
    \/ \E c \in Clients, random \in RandomValues : Reconnect(c, random)

TwoClientSpec == TwoClientInit /\ [][TwoClientNext]_vars

---------------------------------------------------------------------------
(* The backoff object by itself: next() and reset() for several settings   *)

InitialDelayValues == {100, 2000}

MaxDelayValues == {1000, 30000}

FactorValues == {2, 3}

RandomizationFactorValues == {0, 1}

BackoffInit ==
    /\ config = [responseOptions |->
                    [format |-> "identity", timeoutResponseAfter |-> 40000],
                 connectionNeeded |-> TRUE,
                 transforms |-> DefaultTransformsConfig,
                 responseMiddleware |-> << >>,
                 timeoutResponseAfter |-> 40000,
                 maxConnectionAttempts |-> 8]
    /\ handlers = << >>
    /\ reqs = << >>
    /\ subscribed = {}
    /\ published = {}
    /\ last = NoMessage
    /\ MadeIdle
    /\ PipeIdle
    /\ variant = "part_000"
    /\ pubsub = [c \in Clients |-> NewPubsub]
    /\ client = [c \in Clients |-> NewClient(TRUE)]
    /\ \E i \in InitialDelayValues, m \in MaxDelayValues, f \in FactorValues,
          rf \in RandomizationFactorValues :
          backoff = [BackoffModule EXCEPT
                       !.initialDelay = i, !.maxDelay = m, !.factor = f,
                       !.randomizationFactor = rf]
    /\ lastEvent = NoEvent
    /\ observed = NoHistory

\* a call of backoff.next()
BackoffNext(random) ==
    /\ observed.calls < MaxCalls
    /\ backoff' = next(backoff, random)
    /\ lastEvent' = [NoEvent EXCEPT !.kind = "next", !.computed = TRUE,
                                !.previous = backoff.delay]
    /\ observed' = [observed EXCEPT !.calls = @ + 1]
    /\ UNCHANGED <<config, handlers, reqs, subscribed, published, last,
                   variant, pubsub, client>>
    /\ UNCHANGED pipe
    /\ UNCHANGED made

\* a call of backoff.reset()
BackoffReset ==
    /\ backoff' = reset(backoff)
    /\ lastEvent' = [NoEvent EXCEPT !.kind = "reset"]
    /\ observed' = [observed EXCEPT !.calls = 0]
    /\ UNCHANGED <<config, handlers, reqs, subscribed, published, last,
                   variant, pubsub, client>>
    /\ UNCHANGED pipe
    /\ UNCHANGED made

BackoffSpecNext ==
    \/ \E random \in RandomValues : BackoffNext(random)
    \/ BackoffReset

BackoffSpec == BackoffInit /\ [][BackoffSpecNext]_vars

---------------------------------------------------------------------------
(* The transform pipeline alone: publish, fastPublish and addTransform on  *)
(* one client, for every setting of the two ensure options; and the        *)
(* response middleware alone                                               *)

\* what config.responseMiddleware can be
ConfigMiddlewares == {<< >>, <<"m1", "m2">>}

\* the payloads handed to publish and fastPublish: objects with and without
\* the fields of the ensure transforms, a string, and no payload
PublishData ==
    {Object("x:1"),
     [Object("x:1") EXCEPT !.uuid = "own", !.timestamp = "own"],
     [Object("x:1") EXCEPT !.uuid = "falsy", !.timestamp = "own"],
     [Object("x:1") EXCEPT !.uuid = "own", !.timestamp = "falsy"],
     String("text"), NoPayload}

\* the data handed to applyResponseMiddleware
ResponseData == {Object("x:1"), NoPayload}

PublishInit ==
    /\ config \in [responseOptions :
                      [format : {"identity"}, timeoutResponseAfter : {40000}],
                   connectionNeeded : {TRUE},
                   transforms :
                      [ensure : [uuid : EnsureOptions, timestamp : EnsureOptions]],
                   responseMiddleware : {<< >>},
                   timeoutResponseAfter : {40000},
                   maxConnectionAttempts : {8}]
    /\ handlers = << >>
    /\ reqs = << >>
    /\ subscribed = {}
    /\ published = {}
    /\ last = NoMessage
    /\ MadeIdle
    /\ PipeIdle
    /\ ConnIdle

PublishNext ==
    \/ \E topic \in RequestTopics, data \in PublishData : Publish(topic, data)
    \/ \E topic \in RequestTopics, data \in PublishData : FastPublish(topic, data)
    \/ \E transform \in CustomTransforms \cup {NotAFunction} :
          AddTransform(transform)

PublishSpec == PublishInit /\ [][PublishNext]_vars

MiddlewareInit ==
    /\ config \in [responseOptions :
                      [format : {"identity"}, timeoutResponseAfter : {40000}],
                   connectionNeeded : {TRUE},
                   transforms : {DefaultTransformsConfig},
                   responseMiddleware : ConfigMiddlewares,
                   timeoutResponseAfter : {40000},
                   maxConnectionAttempts : {8}]
    /\ handlers = << >>
    /\ reqs = << >>
    /\ subscribed = {}
    /\ published = {}
    /\ last = NoMessage
    /\ MadeIdle
    /\ PipeIdle
    /\ ConnIdle

MiddlewareNext ==
    \/ \E middleware \in Middlewares \cup {NotAFunction} :
          AddResponseMiddleware(middleware)
    \/ \E data \in ResponseData, error \in {NoPayload, HandlerFailure} :
          ApplyResponseMiddleware(data, error)

MiddlewareSpec == MiddlewareInit /\ [][MiddlewareNext]_vars

---------------------------------------------------------------------------
(* The responder: one client whose handlers answer the requests they get   *)

ResponderPatterns == {<<"a">>, <<"a", "#">>}

\* what a requester published: its fields, the topicKey field, and the
\* fields of the ensure transforms
RequestMessage ==
    JSONStringify([RequestData EXCEPT !.respondTo = <<"a", "res", "g1">>,
                                      !.uuid = "generated",
                                      !.timestamp = "generated"])

\* bodies with the topicKey field, without it, not JSON, and JSON that is
\* not an object: null, a number, a string
ResponderMessages ==
    {RequestMessage, JSONStringify(Object("v:1")), String("not json"),
     JSONStringify(Literal("null", "null")),
     JSONStringify(Literal("number", "7")),
     JSONStringify(String("text"))}

ResponderInit ==
    /\ config \in [responseOptions :
                      [format : {"identity"}, timeoutResponseAfter : {40000}],
                   connectionNeeded : {TRUE},
                   transforms : {DefaultTransformsConfig},
                   responseMiddleware : ConfigMiddlewares,
                   timeoutResponseAfter : {40000},
                   maxConnectionAttempts : {8}]
    /\ handlers = << >>
    /\ reqs = << >>
    /\ subscribed = {}
    /\ published = {}
    /\ last = NoMessage
    /\ MadeIdle
    /\ PipeIdle
    /\ ConnIdle

ResponderNext ==
    \/ \E topic \in ResponderPatterns, behaviour \in Responding \cup {"ok"} :
          Subscribe(topic, behaviour)
    \/ \E middleware \in Middlewares : AddResponseMiddleware(middleware)
    \/ \E topic \in RequestTopics, message \in ResponderMessages :
          Message(topic, message)

ResponderSpec == ResponderInit /\ [][ResponderNext]_vars

---------------------------------------------------------------------------
(* Clients made one after the other in one process, with urls that repeat, *)
(* and the events of their transports                                      *)

\* $initPubSubMQTT(context, {url}), url being Absent when the configuration
\* has none: createClient gets the merged configuration and the listeners
\* of the new instance are registered on the client it returns
InitPubSubMQTT(url) ==
    /\ Len(instances) < MaxInstances
    /\ LET options == [url |-> IF url = Absent THEN "mqtt://test.mosquitto.org"
                                ELSE url]
           got == createClient(_clients, transports, options)
           k == Len(instances) + 1
       IN  /\ _clients' = got.cache
           /\ transports' = [got.opened EXCEPT ![got.client].listeners =
                                                    Append(@, k)]
           /\ instances' = Append(instances,
                                  [url |-> options.url, client |-> got.client,
                                   since |-> Len(got.opened[got.client].emitted),
                                   seen |-> << >>])
    /\ UNCHANGED <<config, handlers, reqs, subscribed, published, last>>
    /\ UNCHANGED conn
    /\ UNCHANGED pipe

\* transport t emits an event: every listener registered on it is called,
\* in registration order
Emit(t, event) ==
    /\ t \in 1..Len(transports)
    /\ Len(transports[t].emitted) < MaxEvents
    /\ transports' = [transports EXCEPT ![t].emitted = Append(@, event)]
    /\ instances' = [k \in 1..Len(instances) |->
                        IF \E i \in 1..Len(transports[t].listeners) :
                              transports[t].listeners[i] = k
                        THEN [instances[k] EXCEPT !.seen = Append(@, event)]
                        ELSE instances[k]]
    /\ UNCHANGED <<config, handlers, reqs, subscribed, published, last, _clients>>
    /\ UNCHANGED conn
    /\ UNCHANGED pipe

\* the module is loaded and $initPubSubMQTT has not been called
CreateInit ==
    /\ config = [responseOptions |->
                    [format |-> "identity", timeoutResponseAfter |-> 40000],
                 connectionNeeded |-> TRUE,
                 transforms |-> DefaultTransformsConfig,
                 responseMiddleware |-> << >>,
                 timeoutResponseAfter |-> 40000,
                 maxConnectionAttempts |-> 8]
    /\ handlers = << >>
    /\ reqs = << >>
    /\ subscribed = {}
    /\ published = {}
    /\ last = NoMessage
    /\ PipeIdle
    /\ ConnIdle
    /\ _clients = [u \in Urls |-> 0]
    /\ transports = << >>
    /\ instances = << >>

CreateNext ==
    \/ \E url \in Urls \cup {Absent} : InitPubSubMQTT(url)
    \/ \E t \in 1..MaxInstances, event \in {"connect", "message"} : Emit(t, event)

CreateSpec == CreateInit /\ [][CreateNext]_vars

---------------------------------------------------------------------------
(* Requests in flight together: as many request() calls as the pool has    *)
(* tokens, their timers, and responses on their response topics            *)

\* what a responder published for the request with token rndm
ResponseMessage(rndm) ==
    JSONStringify([RequestData EXCEPT !.respondTo = <<"a", "res", rndm>>,
                                      !.uuid = "generated",
                                      !.timestamp = "generated"])

\* the data of a request(): fields only, fields and one named like the
\* topicKey, omitted, a string that is not JSON
RequestPayloads ==
    {RequestData, [RequestData EXCEPT !.respondTo = <<"b">>], NoPayload,
     String("not json")}

\* the options of a request(): none, or a timeoutResponseAfter
RequestOptions == {NoOptions} \cup {Options(t) : t \in TimeoutValues}

TwoRequestInit ==
    /\ config \in [responseOptions :
                      [format : {"identity"}, timeoutResponseAfter : TimeoutValues],
                   connectionNeeded : {TRUE},
                   transforms : {DefaultTransformsConfig},
                   responseMiddleware : {<< >>},
                   timeoutResponseAfter : TimeoutValues,
                   maxConnectionAttempts : {8}]
    /\ handlers = << >>
    /\ reqs = << >>
    /\ subscribed = {}
    /\ published = {}
    /\ last = NoMessage
    /\ MadeIdle
    /\ PipeIdle
    /\ ConnIdle

TwoRequestNext ==
    \/ \E topic \in RequestTopics, data \in RequestPayloads,
          options \in RequestOptions, rndm \in makeGuid :
          Len(reqs) < Len(GuidPool) /\ request(topic, data, options, rndm)
    \/ \E r \in 1..Len(GuidPool) : TimerFire(r)
    \/ \E topic \in RequestTopics, rndm \in Guids :
          Message(topic \o <<"res", rndm>>, ResponseMessage(rndm))

TwoRequestSpec == TwoRequestInit /\ [][TwoRequestNext]_vars

---------------------------------------------------------------------------
(* End to end: this client requests, the client of the other process has a *)
(* handler that answers with the payload it got, and the transport         *)
(* delivers what either one publishes. One request is in flight at a time, *)
(* and the timer of a request does not expire while the transport still    *)
(* holds a message.                                                        *)

\* subscribe(topic, (topic, payload) => payload.response(payload)) in the
\* other process
ResponderHandlers == <<[key |-> <<"a">>, val |-> UserHandler("responds")]>>

EndToEndInit ==
    /\ config \in [responseOptions :
                      [format : {"identity"}, timeoutResponseAfter : TimeoutValues],
                   connectionNeeded : {TRUE},
                   transforms :
                      [ensure : [uuid : EnsureOptions, timestamp : EnsureOptions]],
                   responseMiddleware : {<< >>},
                   timeoutResponseAfter : {40000},
                   maxConnectionAttempts : {8}]
    /\ handlers = << >>
    /\ reqs = << >>
    /\ subscribed = {}
    /\ published = {}
    /\ last = NoMessage
    /\ MadeIdle
    /\ pipeline = NewPipeline(config)
    /\ lastCall = NoCall
    /\ inflight = {}
    /\ remote \in {<< >>, ResponderHandlers}
    /\ ConnIdle

EndToEndNext ==
    \/ \E topic \in RequestTopics, rndm \in makeGuid :
          /\ Len(reqs) < Len(GuidPool)
          /\ \A r \in 1..Len(reqs) : reqs[r].result # "pending"
          /\ request(topic, RequestData, NoOptions, rndm)
    \/ \E m \in inflight : Deliver(m)
    \/ \E m \in inflight : RemoteDeliver(m)
    \/ \E r \in 1..Len(GuidPool) : inflight = {} /\ TimerFire(r)

EndToEndSpec == EndToEndInit /\ [][EndToEndNext]_vars

\* a timer that was started and not cleared fires once the transport is
\* empty
EndToEndFairSpec ==
    /\ EndToEndSpec
    /\ \A r \in 1..Len(GuidPool) : WF_vars(inflight = {} /\ TimerFire(r))

\* a timer that was started and not cleared fires
FairSpec == Spec /\ \A r \in 1..MaxRequests : WF_vars(TimerFire(r))

---------------------------------------------------------------------------
(* Properties *)

ReqIds == 1..Len(reqs)

\* the registered patterns that match topic, in Object.keys order
MatchingKeys(h, topic) ==
    LET Matches(k) == match(k, topic) IN SelectSeq(ObjectKeys(h), Matches)

\* the keys whose handler a dispatch called, in call order
InvokedKeys(log) ==
    LET Called(e) == e.outcome \in {"returned", "threw"}
        called == SelectSeq(log, Called)
    IN  [i \in 1..Len(called) |-> called[i].key]

\* this step is a 'message' event: last' holds its topic and body
MessageStep == last'.seen /\ Message(last'.topic, last'.message)

RawPayload(message) == String(message.text)

\* C1: the pending result of a request is settled at most once: once it is
\* resolved or rejected, no later response message and no later timer expiry
\* changes its outcome or its value.
C1_SettledAtMostOnce ==
    [][\A r \in ReqIds :
          reqs[r].result # "pending" =>
              /\ reqs'[r].result = reqs[r].result
              /\ reqs'[r].value = reqs[r].value]_vars

\* the timer expired first and a late response then ran $handler
C1_Witness ==
    \E r \in ReqIds :
        /\ reqs[r].timer = "fired"
        /\ reqs[r].ran
        /\ reqs[r].result = "rejected"
        /\ reqs[r].value = TimeoutError

\* C2: every request made with a non-zero timeoutResponseAfter is eventually
\* resolved or rejected.
C2_EventuallySettles ==
    \A r \in 1..MaxRequests :
        (Len(reqs) >= r /\ config.responseOptions.timeoutResponseAfter # 0)
            ~> (Len(reqs) >= r /\ reqs[r].result # "pending")

\* C3: once the timer of a request has expired, the registry no longer holds
\* the handler of that request for its response topic, and no later message
\* runs it.
C3_TimeoutRemovesHandler ==
    \A r \in ReqIds :
        reqs[r].timer = "fired" =>
            /\ _getHandlerForTopic(handlers, reqs[r].responseTopic)
                  # RequestHandler(r)
            /\ ~reqs[r].ran

C5_DuplicateResponseIgnored ==
    \A r \in ReqIds :
        ( /\ last.seen
          /\ last.topic = reqs[r].responseTopic
          /\ reqs[r].ran
          /\ reqs[r].result = "resolved"
          /\ \A i \in 1..Len(last.log) : last.log[i].handler # RequestHandler(r) )
        => /\ \A i \in 1..Len(last.log) : last.log[i].key # reqs[r].responseTopic
           /\ last.error.key # reqs[r].responseTopic

\* C6: the response topic of a completed request is not a key of the
\* registry, and every key of the registry has a callable handler.
C6_CompletedRequestUnregistered ==
    /\ \A r \in ReqIds :
          reqs[r].result # "pending" => ~HasKey(handlers, reqs[r].responseTopic)
    /\ \A i \in 1..Len(handlers) : handlers[i].val # Undefined

\* C7: a dispatch calls the handler of every registered pattern that matches
\* the topic, once each, in registration order, and no other.
C7_DispatchCallsEveryMatch ==
    [][MessageStep =>
          InvokedKeys(last'.log) = MatchingKeys(handlers, last'.topic)]_vars

\* C8: when a handler throws, the handlers of the other matching patterns
\* are still called and nothing is thrown out of the dispatch.
C8_ThrowingHandlerIsolated ==
    [][( /\ MessageStep
         /\ \E i \in 1..Len(last'.log) :
               /\ last'.log[i].handler.type = "user"
               /\ last'.log[i].outcome = "threw" )
       => /\ last'.error = NoError
          /\ \A i \in 1..Len(handlers) :
                ( /\ match(handlers[i].key, last'.topic)
                  /\ handlers[i].val.type = "user" )
                => \E j \in 1..Len(last'.log) :
                      last'.log[j].key = handlers[i].key]_vars

WildcardRule(filter, topic) ==
    LET n == Len(filter)
        multi == filter[n] = "#"
        fixed == IF multi THEN n - 1 ELSE n
    IN  /\ IF multi THEN Len(topic) >= fixed ELSE Len(topic) = fixed
        /\ \A i \in 1..fixed : filter[i] = "+" \/ filter[i] = topic[i]

\* C10: the handler of a pattern is called for a topic exactly when the
\* pattern matches the topic by the wildcard rules: literal segments equal,
\* '+' for one segment, a trailing '#' for zero or more segments, otherwise
\* equal segment counts.
C10_WildcardRules ==
    last.seen =>
        LET filter == handlers[1].key
            called == last.log # << >>
        IN  /\ called <=> WildcardRule(filter, last.topic)
            /\ (filter = <<"a", "+", "c">> /\ last.topic = <<"a", "b", "c">>) => called
            /\ (filter = <<"a", "+", "c">> /\ last.topic = <<"a", "b", "b", "c">>)
                  => ~called
            /\ (filter = <<"a", "#">> /\ last.topic = <<"a", "b", "c">>) => called
            /\ (filter = <<"a", "#">> /\ last.topic = <<"a">>) => called
            /\ (filter = <<"a", "+">> /\ last.topic = <<"a">>) => ~called

\* a/# was matched against a: '#' stood for no segment
C10_Witness ==
    /\ last.seen
    /\ handlers[1].key = <<"a", "#">>
    /\ last.topic = <<"a">>
    /\ last.log # << >>

---------------------------------------------------------------------------
(* Properties of the connection lifecycle *)

\* this step is a transport event of the given kind for client c (two equal
\* events in a row that change nothing are a stuttering step)
EventStep(kind, c) ==
    /\ lastEvent' # lastEvent
    /\ lastEvent'.kind = kind
    /\ lastEvent'.client = c

\* C11: the client emits 'ready' on the first connect event it receives and
\* on no other event, and 'connect', never 'ready', on every later connect
\* event; reconnect, offline, error and close events before the first
\* connect event do not use up the 'ready'.
C11_ReadyExactlyOnce ==
    [][\A c \in Clients :
          /\ EventStep("connect", c) =>
                lastEvent'.emitted =
                    IF observed.connected[c] THEN "connect" ELSE "ready"
          /\ (lastEvent' # lastEvent /\ lastEvent'.kind # "connect") =>
                lastEvent'.emitted \notin {"ready", "connect"}]_vars

\* the first connect event came after a reconnect event that had already
\* set a retry interval, and it emitted 'ready'
C11_Witness ==
    /\ lastEvent.kind = "connect"
    /\ lastEvent.client = 1
    /\ lastEvent.emitted = "ready"
    /\ client[1].reconnectPeriod = 100

\* C12: a connect event subscribes on the transport to every registered
\* pattern: the static handlers of the configuration and every topic handed
\* to the transport's subscribe before the event (by subscribe() and by
\* request()).
C12_ConnectResubscribesAll ==
    [][EventStep("connect", 1) =>
          /\ Range(ObjectKeys(StaticHandlers)) \subseteq Range(lastEvent'.topics)
          /\ subscribed \subseteq Range(lastEvent'.topics)
          /\ Range(lastEvent'.topics) \subseteq subscribed']_vars

\* a later connect event with a static handler, a subscribe() pattern and a
\* response topic registered
C12_Witness ==
    /\ lastEvent.kind = "connect"
    /\ lastEvent.emitted = "connect"
    /\ Len(lastEvent.topics) >= 3
    /\ \E p \in SubscribePatterns : p \in Range(lastEvent.topics)

\* C13: with connectionNeeded true and maxConnectionAttempts = N, the k-th
\* consecutive reconnect event without a connect event in between raises the
\* error exactly when k > N: never for k <= N, and for k = N + 1.
C13_FatalOnAttemptAfterMax ==
    \A c \in Clients :
        ( /\ lastEvent.kind = "reconnect"
          /\ lastEvent.client = c
          /\ config.connectionNeeded )
        => /\ lastEvent.raised <=>
                 observed.reconnects[c] > config.maxConnectionAttempts
           /\ lastEvent.raised => lastEvent.emitted = "none"

\* the third reconnect event in a row with maxConnectionAttempts = 2
C13_Witness ==
    /\ lastEvent.kind = "reconnect"
    /\ lastEvent.client = 1
    /\ config.connectionNeeded
    /\ config.maxConnectionAttempts = 2
    /\ observed.reconnects[1] = 3
    /\ lastEvent.raised

\* C14: with connectionNeeded false, the reconnect event that takes
\* connectionAttempt above maxConnectionAttempts ends the transport and does
\* nothing more towards reconnecting: no backoff delay is computed, no retry
\* interval is set on the transport, and nothing is raised.
C14_ExhaustedOnlyEnds ==
    \A c \in Clients :
        ( /\ lastEvent.kind = "reconnect"
          /\ lastEvent.client = c
          /\ ~config.connectionNeeded
          /\ lastEvent.attempt > config.maxConnectionAttempts )
        => /\ lastEvent.ended
           /\ client[c].ended
           /\ ~lastEvent.raised
           /\ ~lastEvent.computed
           /\ ~lastEvent.configured

RECURSIVE Pow(_, _)
Pow(b, n) == IF n = 0 THEN 1 ELSE b * Pow(b, n - 1)

\* the n-th value (n from 0) of the backoff sequence of b
BackoffValue(b, n) == Min(b.initialDelay * Pow(b.factor, n), b.maxDelay)

\* C15: for one client whose transport has options, the k-th consecutive
\* reconnect event after a connect event or after construction, while the
\* attempt count does not exceed maxConnectionAttempts, sets the transport's
\* reconnectPeriod to the k-th value of the backoff sequence, which starts
\* at initialDelay.
C15_ReconnectSetsBackoffDelay ==
    ( /\ lastEvent.kind = "reconnect"
      /\ lastEvent.client = 1
      /\ variant = "part_000"
      /\ client[1].options
      /\ lastEvent.attempt <= config.maxConnectionAttempts )
    => /\ lastEvent.configured
       /\ client[1].reconnectPeriod =
             BackoffValue(backoff, observed.reconnects[1] - 1)

\* the second reconnect event in a row after a connect event: the retry
\* interval goes from initialDelay to initialDelay * factor
C15_Witness ==
    /\ lastEvent.kind = "reconnect"
    /\ lastEvent.client = 1
    /\ lastEvent.configured
    /\ lastEvent.previous = 100
    /\ observed.connected[1]
    /\ observed.reconnects[1] = 2
    /\ lastEvent.attempt <= config.maxConnectionAttempts
    /\ client[1].reconnectPeriod = 300

\* C16: connectionAttempt is the number of reconnect events since the last
\* connect event (or since construction): a reconnect event adds one, a
\* connect event sets it to 0, and no other event and no public operation
\* changes it.
C16_AttemptCountsReconnects ==
    [][\A c \in Clients :
          /\ pubsub'[c].connectionAttempt = observed'.reconnects[c]
          /\ IF EventStep("reconnect", c)
             THEN pubsub'[c].connectionAttempt = pubsub[c].connectionAttempt + 1
             ELSE IF EventStep("connect", c)
             THEN pubsub'[c].connectionAttempt = 0
             ELSE pubsub'[c].connectionAttempt = pubsub[c].connectionAttempt]_vars

\* two reconnect events, then a request and an offline event: the count is
\* still 2
C16_Witness ==
    /\ lastEvent.kind = "offline"
    /\ pubsub[1].connectionAttempt = 2
    /\ observed.reconnects[1] = 2
    /\ reqs # << >>
    /\ last.seen

\* C17: an offline event sets online to false and emits 'offline', and
\* changes nothing else: connectionAttempt, the backoff object, the
\* transport's settings, the registry and the requests with their timers
\* stay as they are.
C17_OfflineOnlyMarksOffline ==
    [][\A c \in Clients :
          EventStep("offline", c) =>
              /\ pubsub'[c] = [pubsub[c] EXCEPT !.online = FALSE]
              /\ \A d \in Clients \ {c} : pubsub'[d] = pubsub[d]
              /\ lastEvent'.emitted = "offline"
              /\ ~lastEvent'.raised
              /\ UNCHANGED <<backoff, client, handlers, reqs, subscribed,
                             published>>]_vars

\* an offline event while a request is pending with its timer running,
\* after a reconnect event
C17_Witness ==
    /\ lastEvent.kind = "offline"
    /\ ~pubsub[1].online
    /\ pubsub[1].connectionAttempt = 1
    /\ \E r \in ReqIds : reqs[r].result = "pending" /\ reqs[r].timer = "armed"

\* C18: an error event of the transport, with or without a listener for the
\* error notification, records the error on the client, emits the
\* notification and raises nothing; online, connectionAttempt, the registry
\* and everything else stay as they are.
C18_TransportErrorNeverRaises ==
    [][\A c \in Clients :
          EventStep("error", c) =>
              /\ pubsub'[c] = [pubsub[c] EXCEPT !.error = "err"]
              /\ lastEvent'.emitted = errorNotification(variant)
              /\ ~lastEvent'.raised
              /\ UNCHANGED <<backoff, client, handlers, reqs, subscribed,
                             published>>]_vars

\* C19: with randomizationFactor 0, the n-th next() since construction or
\* since the last reset() (n from 0) returns
\* min(initialDelay * factor^n, maxDelay); the returned values never
\* decrease between two reset() calls and never exceed maxDelay; the first
\* next() after a reset() returns the value for n = 0; with 100, 3, 1000 the
\* values are 100, 300, 900, 1000, 1000, ...
C19_BackoffSequence ==
    (lastEvent.kind = "next" /\ backoff.randomizationFactor = 0) =>
        LET n == observed.calls - 1
        IN  /\ backoff.delay = BackoffValue(backoff, n)
            /\ backoff.delay <= backoff.maxDelay
            /\ backoff.delay >= lastEvent.previous
            /\ n = 0 => backoff.delay = Min(backoff.initialDelay, backoff.maxDelay)
            /\ ( /\ backoff.initialDelay = 100
                 /\ backoff.factor = 3
                 /\ backoff.maxDelay = 1000 )
               => backoff.delay = IF n = 0 THEN 100
                                  ELSE IF n = 1 THEN 300
                                  ELSE IF n = 2 THEN 900
                                  ELSE 1000

\* the fifth next() in a row with 100, 3, 1000 returned 1000, as the fourth
C19_Witness ==
    /\ lastEvent.kind = "next"
    /\ backoff.randomizationFactor = 0
    /\ backoff.initialDelay = 100
    /\ backoff.factor = 3
    /\ backoff.maxDelay = 1000
    /\ observed.calls = 5
    /\ lastEvent.previous = 1000
    /\ backoff.delay = 1000

\* C20: with two clients for different endpoints, the delay a client's
\* reconnect event sets depends on that client's events alone: its k-th
\* consecutive reconnect event since its last connect event sets the k-th
\* value of the backoff sequence, whatever connect and reconnect events the
\* other client has had in between.
C20_BackoffPrivateToClient ==
    \A c \in Clients :
        ( /\ lastEvent.kind = "reconnect"
          /\ lastEvent.client = c
          /\ lastEvent.configured )
        => client[c].reconnectPeriod =
              BackoffValue(backoff, observed.reconnects[c] - 1)

---------------------------------------------------------------------------
(* Transform and middleware pipelines, responder, request correlation *)

\* C28: when format throws on an arriving response, the caller sees it
\* through the pending result: once $handler has run with such a format the
\* result is no longer pending, and no FormatError leaves the dispatch.
C28_FormatFailureRejects ==
    /\ \A r \in ReqIds :
          (reqs[r].ran /\ config.responseOptions.format = "throws") =>
              reqs[r].result = "rejected"
    /\ last.error.kind # "FormatError"

\* this step is a call of op: lastCall' describes it
CallStep(op) == lastCall' # lastCall /\ lastCall'.op = op

\* the built-in transforms that config leaves in, in the order of
\* construction
BuiltIn(cfg) ==
    (IF cfg.transforms.ensure.uuid = "false" THEN << >> ELSE <<"ensure.uuid">>)
    \o (IF cfg.transforms.ensure.timestamp = "false"
        THEN << >> ELSE <<"ensure.timestamp">>)
    \o <<"serialize">>

\* log is one call of each transform of transforms, in that order, each one
\* given what the one before returned, starting from data
FoldedInOrder(log, transforms, data) ==
    /\ Len(log) = Len(transforms)
    /\ \A i \in 1..Len(log) :
          /\ log[i].tx = transforms[i]
          /\ log[i].input = IF i = 1 THEN data
                            ELSE applyTransform(log[i-1].tx, log[i-1].input).value

\* C21: a publish() call calls every registered transform once, in
\* registration order (the built-in ones first, then those added with
\* addTransform), each with the result of the one before, and hands the
\* result of the last one to exactly one client.publish call.
C21_PublishAppliesAllTransforms ==
    [][CallStep("publish") =>
          LET log == lastCall'.log
              n == Len(log)
          IN  /\ \E added \in SeqsUpTo(CustomTransforms, MaxTransforms) \cup {<< >>} :
                    pipeline._transforms = BuiltIn(config) \o added
              /\ FoldedInOrder(log, pipeline._transforms,
                               IF lastCall'.data.kind = "none"
                               THEN String("") ELSE lastCall'.data)
              /\ Len(lastCall'.sent) = 1
              /\ lastCall'.sent[1].topic = lastCall'.topic
              /\ lastCall'.sent[1].message =
                    applyTransform(log[n].tx, log[n].input).value]_vars

\* the two ensure transforms one after the other
ensureBoth(data) ==
    ensureTransform("timestamp", ensureTransform("uuid", data).value).value

\* C22: when an object is published with both ensure transforms in place,
\* the message handed to the transport has the identifier and the timestamp
\* field; a field that the object already had, whatever its value, has that
\* value still; and the ensure transforms applied to their own result return
\* it unchanged.
C22_EnsureKeepsPresentFields ==
    ( /\ lastCall.op = "publish"
      /\ lastCall.data.kind = "object"
      /\ config.transforms = DefaultTransformsConfig )
    => /\ Len(lastCall.sent) = 1
       /\ lastCall.sent[1].message.uuid # Absent
       /\ lastCall.sent[1].message.timestamp # Absent
       /\ lastCall.data.uuid # Absent =>
             lastCall.sent[1].message.uuid = lastCall.data.uuid
       /\ lastCall.data.timestamp # Absent =>
             lastCall.sent[1].message.timestamp = lastCall.data.timestamp
       /\ ensureBoth(ensureBoth(lastCall.data)) = ensureBoth(lastCall.data)

\* the transform that ensures field
Stage(field) == IF field = "uuid" THEN "ensure.uuid" ELSE "ensure.timestamp"

\* C23: with transforms.ensure.uuid (or .timestamp) set to false, that
\* transform is not in the pipeline and no publish calls it; the other ensure
\* transform, unless it is switched off too, is the first one that a publish
\* calls; and an object published without the field is sent serialised,
\* without that field and with the field of the other ensure transform.
C23_DisabledStageOmitted ==
    \A field \in {"uuid", "timestamp"} :
        LET other == IF field = "uuid" THEN "timestamp" ELSE "uuid"
        IN  config.transforms.ensure[field] = "false" =>
              /\ \A i \in 1..Len(pipeline._transforms) :
                    pipeline._transforms[i] # Stage(field)
              /\ lastCall.op = "publish" =>
                    /\ \A i \in 1..Len(lastCall.log) :
                          lastCall.log[i].tx # Stage(field)
                    /\ config.transforms.ensure[other] # "false" =>
                          lastCall.log[1].tx = Stage(other)
                    /\ lastCall.data.kind = "object" =>
                          /\ Len(lastCall.sent) = 1
                          /\ \E i \in 1..Len(lastCall.log) :
                                lastCall.log[i].tx = "serialize"
                          /\ lastCall.sent[1].message.kind = "string"
                          /\ lastCall.sent[1].message.enc = "object"
                          /\ lastCall.data[field] = Absent =>
                                lastCall.sent[1].message[field] = Absent
                          /\ config.transforms.ensure[other] # "false" =>
                                lastCall.sent[1].message[other] # Absent

\* with ensure.uuid switched off an object without fields was published: it
\* went out with a generated timestamp and no identifier
C23_Witness ==
    /\ config.transforms.ensure = [uuid |-> "false", timestamp |-> "default"]
    /\ lastCall.op = "publish"
    /\ lastCall.data = Object("x:1")
    /\ Len(lastCall.sent) = 1
    /\ lastCall.sent[1].message.uuid = Absent
    /\ lastCall.sent[1].message.timestamp = "generated"
    /\ lastCall.sent[1].message.enc = "object"

\* C24: applyResponseMiddleware(data, error) with middlewares registered
\* calls each of them once, in registration order, with (accumulated
\* response, data, error), the first one with an empty object whatever an
\* earlier invocation returned, each later one with what the one before
\* returned, and returns what the last one returned; with none registered it
\* calls nothing and returns data.
C24_MiddlewareFoldsFromEmpty ==
    [][CallStep("applyResponseMiddleware") =>
          LET mws == pipeline.responseMiddleware
              call == lastCall'
              log == call.middlewares
              n == Len(log)
          IN  IF Len(mws) = 0
              THEN n = 0 /\ call.result = call.data
              ELSE /\ n = Len(mws)
                   /\ \A i \in 1..n :
                         /\ log[i].middleware = mws[i]
                         /\ log[i].data = call.data
                         /\ log[i].error = call.error
                         /\ log[i].response =
                               IF i = 1 THEN Object("")
                               ELSE applyMiddleware(mws[i-1], log[i-1].response,
                                                    call.data, call.error)
                   /\ call.result = applyMiddleware(mws[n], log[n].response,
                                                    call.data, call.error)]_vars

\* a second invocation, after one that returned an object with the fields
\* of m2 and m1: it started from an empty object again
C24_Witness ==
    /\ lastCall.op = "applyResponseMiddleware"
    /\ pipeline.responseMiddleware = <<"m2", "m1">>
    /\ lastCall.previous.marks = <<"m2", "m1">>
    /\ lastCall.data = Object("x:1")
    /\ lastCall.error = HandlerFailure
    /\ lastCall.middlewares[1].response = Object("")
    /\ lastCall.result = [Object("") EXCEPT !.marks = <<"m2", "m1">>]

\* C27: a fastPublish(topic, payload) call calls no transform and raises
\* nothing; it hands exactly one message to client.publish, on that topic,
\* which is the payload itself when it is a string and JSON.stringify of it
\* otherwise, with the identifier and timestamp fields as they were.
C27_FastPublishBypassesTransforms ==
    lastCall.op = "fastPublish" =>
        /\ lastCall.log = << >>
        /\ ~lastCall.raised
        /\ Len(lastCall.sent) = 1
        /\ lastCall.sent[1].topic = lastCall.topic
        /\ lastCall.sent[1].message.uuid = lastCall.data.uuid
        /\ lastCall.sent[1].message.timestamp = lastCall.data.timestamp
        /\ lastCall.sent[1].message.suffix = << >>
        /\ lastCall.data.kind = "string" =>
              lastCall.sent[1].message = lastCall.data
        /\ lastCall.data.kind = "object" =>
              lastCall.sent[1].message =
                  [lastCall.data EXCEPT !.kind = "string", !.enc = "object"]

\* with the default transforms and an added one in place, an object without
\* identifier and timestamp went out as its plain JSON text
C27_Witness ==
    /\ lastCall.op = "fastPublish"
    /\ pipeline._transforms =
          <<"ensure.uuid", "ensure.timestamp", "serialize", "t1">>
    /\ lastCall.data = Object("x:1")
    /\ Len(lastCall.sent) = 1
    /\ lastCall.sent[1].message.enc = "object"
    /\ lastCall.sent[1].message.uuid = Absent
    /\ lastCall.sent[1].message.timestamp = Absent

\* the names of the middlewares that a call of the responder called
CalledMiddlewares(call) ==
    [i \in 1..Len(call.middlewares) |-> call.middlewares[i].middleware]

\* C25: every response that a responder builds has gone through the
\* middlewares listed in config.responseMiddleware, in the order listed,
\* before those added later with addResponseMiddleware.
C25_ConfigMiddlewareApplied ==
    [][MessageStep =>
          \A i \in 1..Len(last'.log) :
              last'.log[i].call.op = "responder" =>
                  CalledMiddlewares(last'.log[i].call) =
                      config.responseMiddleware \o pipeline.responseMiddleware]_vars

\* C26: in a dispatch a payload has the responder exactly when the message
\* has the topicKey field; each handler that calls it with (data, error)
\* makes one client.publish call, to the topic of that field, with the
\* transforms applied to what applyResponseMiddleware(data, error) returns.
C26_ResponderPublishesOnce ==
    [][MessageStep =>
          \A i \in 1..Len(last'.log) :
              LET entry == last'.log[i]
                  call == entry.call
                  topic == decode(last'.message).respondTo
                  message == applyResponseMiddleware(
                                 pipeline.responseMiddleware,
                                 call.data, call.error).value
              IN  /\ entry.handler.type = "user" =>
                        entry.payload.response = (topic # NoTopic)
                  /\ ( /\ entry.handler.type = "user"
                       /\ entry.handler.behaviour \in Responding
                       /\ topic # NoTopic )
                     => /\ call.op = "responder"
                        /\ ~call.raised
                        /\ call.result = message
                        /\ call.sent =
                              <<[topic |-> topic,
                                 message |-> applyTransforms(pipeline._transforms,
                                                             message).value]>>
                        /\ handedOver(call.sent) \subseteq published']_vars

\* C29: two requests that are pending together have different tokens and
\* different response topics, and while a request is pending and its
\* $handler has not run, the registry holds that $handler for its response
\* topic: the request() call of another one has not replaced it.
C29_OnePendingPerToken ==
    \A r1 \in ReqIds, r2 \in ReqIds :
        ( /\ r1 # r2
          /\ reqs[r1].result = "pending"
          /\ reqs[r2].result = "pending" )
        => /\ reqs[r1].rndm # reqs[r2].rndm
           /\ reqs[r1].responseTopic # reqs[r2].responseTopic
           /\ ~reqs[r1].ran =>
                 _getHandlerForTopic(handlers, reqs[r1].responseTopic)
                     = RequestHandler(r1)

\* request r has been made
Made(r) == Len(reqs) >= r

\* request r is resolved with the fields the caller sent and, for each
\* ensure transform that is in place, its field
Answered(r) ==
    /\ Len(reqs) >= r
    /\ reqs[r].result = "resolved"
    /\ reqs[r].value.kind = "object"
    /\ reqs[r].value.text = RequestData.text
    /\ config.transforms.ensure.uuid # "false" => reqs[r].value.uuid # Absent
    /\ config.transforms.ensure.timestamp # "false" =>
          reqs[r].value.timestamp # Absent

\* the transport holds no message
Delivered == inflight = {}

RequestStep == lastCall'.op = "request" /\ Len(reqs') = Len(reqs) + 1

\* C31: in every request() call, when pubsub.publish is reached the
\* registry already holds this request's $handler for the response topic,
\* the response topic has been handed to client.subscribe and the timer,
\* if the call starts one, is running; nothing reaches the transport
\* except through that publish statement, to the request topic.
C31_RegisteredBeforePublish ==
    [][RequestStep =>
          LET r == Len(reqs')
              steps == lastCall'.steps
              reached == {i \in 1..Len(steps) : steps[i].statement = "publish"}
          IN  /\ \A i \in reached :
                    /\ steps[i].handler = RequestHandler(r)
                    /\ steps[i].subscribed
                    /\ steps[i].timer = reqs'[r].timer
                    /\ i = Len(steps)
              /\ lastCall'.sent # << >> => reached # {}
              /\ \A i \in 1..Len(lastCall'.sent) :
                    /\ lastCall'.sent[i].topic = reqs'[r].topic
                    /\ _getHandlerForTopic(handlers', reqs'[r].responseTopic)
                          = RequestHandler(r)
                    /\ reqs'[r].responseTopic \in subscribed']_vars

\* a request started its timer, registered its handler, subscribed and then
\* published: the request is pending with its message handed over
C31_Witness ==
    /\ lastCall.op = "request"
    /\ Len(lastCall.steps) = 3
    /\ lastCall.steps[1].statement = "setTimeout"
    /\ lastCall.steps[2].statement = "subscribe"
    /\ lastCall.steps[2].handler = Undefined
    /\ lastCall.steps[3].statement = "publish"
    /\ lastCall.steps[3].timer = "armed"
    /\ Len(lastCall.sent) = 1
    /\ Len(reqs) = 1
    /\ reqs[1].result = "pending"

\* C32: the timer of a request() call runs for the timeoutResponseAfter
\* of the call's options when the call passes one and for the client's
\* config.timeoutResponseAfter when it does not; when that duration is 0 no
\* timer is started.
C32_TimerUsesConfiguredTimeout ==
    [][RequestStep =>
          LET r == Len(reqs')
              option == lastCall'.options.timeoutResponseAfter
              duration == IF option # << >> THEN option[1]
                          ELSE config.timeoutResponseAfter
          IN  /\ reqs'[r].delay = duration
              /\ (reqs'[r].timer = "armed") = (duration # 0)]_vars

\* C33: while two requests are pending, a message on the response topic
\* of one of them resolves that request and leaves the other one as it
\* was: its record (result, value, timer) and the handler the registry
\* holds for its response topic.
C33_ResponseSettlesOnlyItsRequest ==
    [][\A r \in ReqIds, q \in ReqIds :
          ( /\ r # q
            /\ reqs[r].result = "pending"
            /\ reqs[q].result = "pending"
            /\ MessageStep
            /\ last'.topic = reqs[r].responseTopic )
          => /\ reqs'[r].result = "resolved"
             /\ reqs'[q] = reqs[q]
             /\ _getHandlerForTopic(handlers', reqs[q].responseTopic)
                   = RequestHandler(q)]_vars

\* C34: a publish() call whose payload is a string, or is omitted, raises
\* no error and hands exactly one message to client.publish, on the topic
\* of the call.
C34_PublishAcceptsStrings ==
    [][(CallStep("publish") /\ lastCall'.data.kind \in {"string", "none"}) =>
          /\ ~lastCall'.raised
          /\ Len(lastCall'.sent) = 1
          /\ lastCall'.sent[1].topic = lastCall'.topic]_vars

\* C35: two instances have the same client exactly when they were made
\* with the same url; no two transports were opened for one url; the client
\* of an instance is the transport of its url; and every instance has been
\* called with every event its transport emitted since the instance was
\* made, so instances with one url see the same events.
C35_OneTransportPerUrl ==
    /\ \A i, j \in 1..Len(instances) :
          (instances[i].url = instances[j].url)
              <=> (instances[i].client = instances[j].client)
    /\ \A t1, t2 \in 1..Len(transports) :
          transports[t1].url = transports[t2].url => t1 = t2
    /\ \A i \in 1..Len(instances) :
          /\ instances[i].client \in 1..Len(transports)
          /\ transports[instances[i].client].url = instances[i].url
          /\ _clients[instances[i].url] = instances[i].client
          /\ LET emitted == transports[instances[i].client].emitted
             IN  instances[i].seen =
                    SubSeq(emitted, instances[i].since + 1, Len(emitted))

\* two instances made with one url and a third with another: two
\* transports, and the event of the shared one reached both its instances
C35_Witness ==
    /\ Len(instances) = 3
    /\ Len(transports) = 2
    /\ instances[1].url = instances[2].url
    /\ instances[1].client = instances[2].client
    /\ instances[3].client # instances[1].client
    /\ instances[1].seen = <<"connect">>
    /\ instances[2].seen = <<"connect">>
    /\ instances[3].seen = << >>

C37_JsonLiteralsDispatched ==
    [][( /\ MessageStep
         /\ JSONParse(last'.message).ok
         /\ JSONParse(last'.message).value.kind \in {"null", "number", "string"}
         /\ \A i \in 1..Len(handlers) :
               match(handlers[i].key, last'.topic) =>
                   handlers[i].val = UserHandler("ok") )
       => /\ InvokedKeys(last'.log) = MatchingKeys(handlers, last'.topic)
          /\ \A i \in 1..Len(last'.log) :
                /\ last'.log[i].outcome = "returned"
                /\ last'.log[i].payload = JSONParse(last'.message).value
          /\ last'.error = NoError]_vars

====
